---- MODULE Spec2Model ----
(***************************************************************************)
(* Model of the in-memory user and comment stores of tugas-besar           *)
(* (lib/global, lib/repository) and of the service flows that write to     *)
(* them.  Texts that are scanned or measured (Username, Komentar) are      *)
(* sequences of characters; texts that are only compared (Password,        *)
(* Kategori) are strings.  Arrays are indexed from 0 as in the source.     *)
(***************************************************************************)
EXTENDS Integers, Sequences, FiniteSets, TLC

\* ---------------------------------------------------------------- bounds
\* Length of the backing arrays ([255]model.User, [255]model.Comment),
\* scaled down so that a full store is reachable.
Capacity == 3

\* Successful comment creations explored (caps IdCommentIncrement).
MaxCreates == 4

\* Longest text and longest needle given to the substring scan.
MaxLen == 3

\* ------------------------------------------------------------ input data
UsernameSet == {<<"a">>, <<"b">>}
PasswordSet == {"p", "q"}
KomentarSet == {<<"x">>, <<"y", "y">>}
KategoriSet == {"Positif", "Negatif"}
OwnerSet == {0, 1}

Slots == 0 .. (Capacity - 1)
IndexSet == -1 .. Capacity
IdSet == 0 .. MaxCreates

\* ---------------------------------------------------------- record types
ZeroUser == [Id |-> 0, Username |-> <<>>, Password |-> ""]

ZeroComment == [Id |-> 0, UserId |-> 0, Komentar |-> <<>>, Kategori |-> ""]

VARIABLES
  Users,               \* global.Users
  UserCount,           \* global.UserCount
  Comments,            \* global.Comments
  CommentCount,        \* global.CommentCount
  IdUserIncrement,     \* global.IdUserIncrement
  IdCommentIncrement,  \* global.IdCommentIncrement
  call,                \* the last call: <<operation, the arguments it was given>>
  ret,                 \* what the last call returned
  out,                 \* the caller's array after the last call
  liveU,               \* history: the users created and not yet deleted
  liveC,               \* history: the comments created and not yet deleted
  created,             \* history: number of comments created so far
  Bootstrap_user,      \* the user model Bootstrap declares and hands to Login
  pc                   \* the controllers' call stack: frames <<function, its locals>>

store == <<Users, UserCount, Comments, CommentCount, IdUserIncrement, IdCommentIncrement>>
userStore == <<Users, UserCount, IdUserIncrement>>
commentStore == <<Comments, CommentCount, IdCommentIncrement>>
userHistory == <<liveU>>
commentHistory == <<liveC, created>>
history == <<liveU, liveC, created>>
control == <<Bootstrap_user, pc>>
vars == <<Users, UserCount, Comments, CommentCount, IdUserIncrement, IdCommentIncrement, call, ret, out, liveU, liveC, created,
          Bootstrap_user, pc>>

\* Return values.
Nil == "nil"
OutOfRange == "index out of bounds"
NotFoundOrNotOwned == "comment not found or does not belong to user"
Back == "back"
Continue == "continue"
PromptError == "^C"
CommentNotFound == "comment not found"
UserNotFound == "user not found"
Panic == "panic: index out of range"
NoOut == <<>>

\* The frame that is running, and the stack after a call, a return and a
\* change of the running frame's locals.
Top == pc[Len(pc)]
Push(frame) == Append(pc, frame)
Pop == SubSeq(pc, 1, Len(pc) - 1)
SetTop(frame) == [pc EXCEPT ![Len(pc)] = frame]

\* A panic is never recovered: the process ends, no later call happens.
Running == ret # Panic

\* Removal of the element at 0-based position p of a sequence.
RemoveAt(s, p) == SubSeq(s, 1, p) \o SubSeq(s, p + 2, Len(s))

Init ==
  /\ Users = [i \in Slots |-> ZeroUser]
  /\ UserCount = 0
  /\ Comments = [i \in Slots |-> ZeroComment]
  /\ CommentCount = 0
  /\ IdUserIncrement = 0
  /\ IdCommentIncrement = 0
  /\ call = <<"init">>
  /\ ret = Nil
  /\ out = NoOut
  /\ liveU = <<>>
  /\ liveC = <<>>
  /\ created = 0
  /\ Bootstrap_user = ZeroUser
  /\ pc = <<<<"Bootstrap">>>>

\* ------------------------------------------------------------ user store
\* Slip: the loop bound is one too small, the last record is not moved.
RECURSIVE ShiftLeftStopsEarly(_, _, _)
ShiftLeftStopsEarly(arr, i, n) ==
  IF i < n - 2 THEN ShiftLeftStopsEarly([arr EXCEPT ![i] = arr[i + 1]], i + 1, n) ELSE arr

\* for i := from; i < n-1; i++ { arr[i] = arr[i+1] }
RECURSIVE ShiftLeft(_, _, _)
ShiftLeft(arr, i, n) ==
  IF i < n - 1 THEN ShiftLeft([arr EXCEPT ![i] = arr[i + 1]], i + 1, n) ELSE arr

\* Each repository function is the effect of its body on the store and on
\* the returned value; the actions further down add the caller's side.
\* Slip: a full store overwrites its last slot instead of failing.
userRepository_CreateClamped(user) ==
  IF UserCount \in Slots
    THEN /\ Users' = [Users EXCEPT ![UserCount] = user]
         /\ UserCount' = UserCount + 1
         /\ ret' = Nil
         /\ liveU' = Append(liveU, user)
    ELSE /\ Users' = [Users EXCEPT ![Capacity - 1] = user]
         /\ ret' = Nil
         /\ UNCHANGED <<UserCount, liveU>>

userRepository_Create(user) ==
  IF UserCount \in Slots
    THEN /\ Users' = [Users EXCEPT ![UserCount] = user]
         /\ UserCount' = UserCount + 1
         /\ ret' = Nil
         /\ liveU' = Append(liveU, user)
    ELSE /\ ret' = Panic
         /\ UNCHANGED <<Users, UserCount, liveU>>

\* FindUserByUsername: <<the error, the caller's user model afterwards>>.
\* for i := 0; i < UserCount; i++ { if Username == username { *user = Users[i]; return nil } }
RECURSIVE FindUserByUsernameFrom(_, _, _)
FindUserByUsernameFrom(i, username, user) ==
  IF i >= UserCount THEN <<UserNotFound, user>>
  ELSE IF Users[i].Username = username THEN <<Nil, Users[i]>>
  ELSE FindUserByUsernameFrom(i + 1, username, user)

FindUserByUsername(username, user) == FindUserByUsernameFrom(0, username, user)

\* Slip: the record at exceptId is compared like the others.
RECURSIVE IsUserExistsNoExcept(_, _, _)
IsUserExistsNoExcept(i, username, exceptId) ==
  IF i >= UserCount THEN FALSE
  ELSE IF Users[i].Username = username THEN TRUE
  ELSE IsUserExistsNoExcept(i + 1, username, exceptId)

\* for i := 0; i < UserCount; i++ { if Username == username && i != exceptId { return true } }
RECURSIVE IsUserExistsFrom(_, _, _)
IsUserExistsFrom(i, username, exceptId) ==
  IF i >= UserCount THEN FALSE
  ELSE IF Users[i].Username = username /\ i # exceptId THEN TRUE
  ELSE IsUserExistsFrom(i + 1, username, exceptId)

IsUserExists(username, exceptId) == IsUserExistsFrom(0, username, exceptId)

\* Slip: the patch is copied without the tests for empty fields.
EditedUserOverwrite(user, data) ==
  [user EXCEPT !.Username = data.Username, !.Password = data.Password]

EditedUser(user, data) ==
  [user EXCEPT !.Username = IF data.Username # <<>> THEN data.Username ELSE @,
               !.Password = IF data.Password # "" THEN data.Password ELSE @]

\* Slip: the upper bound is compared with > instead of >=.
IndexOutOfBoundsLax(index) == index < 0 \/ index > UserCount

IndexOutOfBounds(index) == index < 0 \/ index >= UserCount

userRepository_EditUser(index, data) ==
  /\ IF IndexOutOfBounds(index)
       THEN /\ ret' = OutOfRange
            /\ UNCHANGED <<Users, liveU>>
       ELSE /\ Users' = [Users EXCEPT ![index] = EditedUser(@, data)]
            /\ ret' = Nil
            /\ liveU' = [liveU EXCEPT ![index + 1] = EditedUser(@, data)]
  /\ UNCHANGED UserCount

\* Slip: the vacated last slot is not cleared.
DeletedUsersNoClear(id) == ShiftLeft(Users, id, UserCount)

DeletedUsers(id) ==
  [ShiftLeft(Users, id, UserCount) EXCEPT ![UserCount - 1] = ZeroUser]

userRepository_DeleteUser(id) ==
  IF IndexOutOfBounds(id)
    THEN /\ ret' = OutOfRange
         /\ UNCHANGED <<Users, UserCount, liveU>>
    ELSE /\ Users' = DeletedUsers(id)
         /\ UserCount' = UserCount - 1
         /\ ret' = Nil
         /\ liveU' = RemoveAt(liveU, id)

\* --------------------------------------------------------- comment store
\* Slip: the id is taken from the position instead of the counter.
NewCommentByPosition(comment, userId) ==
  [Id |-> CommentCount + 1, UserId |-> userId,
   Komentar |-> comment.Komentar, Kategori |-> comment.Kategori]

NewComment(comment, userId) ==
  [Id |-> IdCommentIncrement + 1, UserId |-> userId,
   Komentar |-> comment.Komentar, Kategori |-> comment.Kategori]

commentRepository_Create(comment, userId) ==
  IF CommentCount \in Slots
    THEN /\ Comments' = [Comments EXCEPT ![CommentCount] = NewComment(comment, userId)]
         /\ CommentCount' = CommentCount + 1
         /\ IdCommentIncrement' = IdCommentIncrement + 1
         /\ ret' = Nil
         /\ liveC' = Append(liveC, [Id |-> created + 1, UserId |-> userId,
                                    Komentar |-> comment.Komentar, Kategori |-> comment.Kategori])
         /\ created' = created + 1
    ELSE /\ ret' = Panic
         /\ UNCHANGED <<commentStore, liveC, created>>

\* Slip: the scan compares the id only.
RECURSIVE FindById(_, _, _)
FindById(i, commentId, userId) ==
  IF i >= CommentCount THEN -1
  ELSE IF Comments[i].Id = commentId THEN i
  ELSE FindById(i + 1, commentId, userId)

\* The position the scan `for i := 0; i < CommentCount; i++` stops at:
\* the first live position holding both the id and the owner, or -1.
RECURSIVE FindOwned(_, _, _)
FindOwned(i, commentId, userId) ==
  IF i >= CommentCount THEN -1
  ELSE IF Comments[i].Id = commentId /\ Comments[i].UserId = userId THEN i
  ELSE FindOwned(i + 1, commentId, userId)

\* Slip: the category is written under the test of the text.
EditedCommentOneTest(comment, data) ==
  [comment EXCEPT !.Komentar = IF data.Komentar # <<>> THEN data.Komentar ELSE @,
                  !.Kategori = IF data.Komentar # <<>> THEN data.Kategori ELSE @]

\* Slip: the edit also copies the owner field of the patch.
EditedCommentWithOwner(comment, data) ==
  [comment EXCEPT !.UserId = data.UserId,
                  !.Komentar = IF data.Komentar # <<>> THEN data.Komentar ELSE @,
                  !.Kategori = IF data.Kategori # "" THEN data.Kategori ELSE @]

EditedComment(comment, data) ==
  [comment EXCEPT !.Komentar = IF data.Komentar # <<>> THEN data.Komentar ELSE @,
                  !.Kategori = IF data.Kategori # "" THEN data.Kategori ELSE @]

\* The history follows the comment by its id, not by its position.
EditedHistory(commentId, data) ==
  [k \in DOMAIN liveC |-> IF liveC[k].Id = commentId
                            THEN [liveC[k] EXCEPT !.Komentar = IF data.Komentar # <<>> THEN data.Komentar ELSE @,
                                                  !.Kategori = IF data.Kategori # "" THEN data.Kategori ELSE @]
                            ELSE liveC[k]]

commentRepository_EditUserComment(commentId, userId, data) ==
  /\ LET i == FindOwned(0, commentId, userId) IN
       IF i = -1
         THEN /\ ret' = NotFoundOrNotOwned
              /\ UNCHANGED <<Comments, liveC>>
         ELSE /\ Comments' = [Comments EXCEPT ![i] = EditedComment(@, data)]
              /\ ret' = Nil
              /\ liveC' = EditedHistory(commentId, data)
  /\ UNCHANGED <<CommentCount, IdCommentIncrement, created>>

DeletedComments(i) == ShiftLeft(Comments, i, CommentCount)

commentRepository_DeleteUserComment(commentId, userId) ==
  /\ LET i == FindOwned(0, commentId, userId) IN
       IF i = -1
         THEN /\ ret' = NotFoundOrNotOwned
              /\ UNCHANGED <<Comments, CommentCount, liveC>>
         ELSE /\ Comments' = DeletedComments(i)
              /\ CommentCount' = CommentCount - 1
              /\ ret' = Nil
              /\ liveC' = SelectSeq(liveC, LAMBDA c : c.Id # commentId)
  /\ UNCHANGED <<IdCommentIncrement, created>>

\* The admin's EditComment and DeleteComment of the comment repository match
\* a live comment by its id alone.
RECURSIVE FindComment(_, _)
FindComment(i, id) ==
  IF i >= CommentCount THEN -1
  ELSE IF Comments[i].Id = id THEN i
  ELSE FindComment(i + 1, id)

\* Both give the error, the array, the count and the live history afterwards.
commentRepository_EditComment(id, data) ==
  LET i == FindComment(0, id) IN
  IF i = -1
    THEN [err |-> CommentNotFound, Comments |-> Comments,
          CommentCount |-> CommentCount, liveC |-> liveC]
    ELSE [err |-> Nil,
          Comments |-> [Comments EXCEPT ![i] = EditedComment(@, data)],
          CommentCount |-> CommentCount,
          liveC |-> EditedHistory(id, data)]

commentRepository_DeleteComment(id) ==
  LET i == FindComment(0, id) IN
  IF i = -1
    THEN [err |-> CommentNotFound, Comments |-> Comments,
          CommentCount |-> CommentCount, liveC |-> liveC]
    ELSE [err |-> Nil,
          Comments |-> [ShiftLeft(Comments, i, CommentCount) EXCEPT ![CommentCount - 1] = ZeroComment],
          CommentCount |-> CommentCount - 1,
          liveC |-> SelectSeq(liveC, LAMBDA c : c.Id # id)]

\* ------------------------------------------------------------- searching
\* strings.ToLower, on the letters the texts are made of.
ToLowerChar(c) == IF c = "A" THEN "a" ELSE IF c = "B" THEN "b" ELSE c

ToLower(s) == [i \in 1 .. Len(s) |-> ToLowerChar(s[i])]

\* for k := 0; k < len(search); k++ { if text[j+k] != search[k] { isMatch = false; break } }
RECURSIVE IsMatchAt(_, _, _, _)
IsMatchAt(text, search, j, k) ==
  IF k >= Len(search) THEN TRUE
  ELSE IF text[j + k + 1] # search[k + 1] THEN FALSE
  ELSE IsMatchAt(text, search, j, k + 1)

\* Slip: the last start position is left out (< instead of <=).
RECURSIVE ScanFromStrict(_, _, _)
ScanFromStrict(text, search, j) ==
  IF ~ (j < Len(text) - Len(search)) THEN FALSE
  ELSE IF IsMatchAt(text, search, j, 0) THEN TRUE
  ELSE ScanFromStrict(text, search, j + 1)

\* for j := 0; j <= len(text)-len(search); j++ { ...; if isMatch { ...; break } }
RECURSIVE ScanFrom(_, _, _)
ScanFrom(text, search, j) ==
  IF ~ (j <= Len(text) - Len(search)) THEN FALSE
  ELSE IF IsMatchAt(text, search, j, 0) THEN TRUE
  ELSE ScanFrom(text, search, j + 1)

\* The indices j+k at which the k loop reads text[j+k], in the order it
\* reads them; a read outside the text is the last one (the scan panics).
RECURSIVE ReadsAt(_, _, _, _)
ReadsAt(text, search, j, k) ==
  IF k >= Len(search) THEN <<>>
  ELSE IF j + k < 0 \/ j + k >= Len(text) THEN <<j + k>>
  ELSE IF text[j + k + 1] # search[k + 1] THEN <<j + k>>
  ELSE <<j + k>> \o ReadsAt(text, search, j, k + 1)

InsideText(text, reads) ==
  \A n \in 1 .. Len(reads) : reads[n] >= 0 /\ reads[n] < Len(text)

\* Slip: the start positions run up to the end of the text.
RECURSIVE ScanReadsPastEnd(_, _, _)
ScanReadsPastEnd(text, search, j) ==
  IF ~ (j <= Len(text)) THEN <<>>
  ELSE LET reads == ReadsAt(text, search, j, 0) IN
       IF ~ InsideText(text, reads) THEN reads
       ELSE IF IsMatchAt(text, search, j, 0) THEN reads
       ELSE reads \o ScanReadsPastEnd(text, search, j + 1)

\* The reads of the whole j loop, which ends at the first match.
RECURSIVE ScanReadsFrom(_, _, _)
ScanReadsFrom(text, search, j) ==
  IF ~ (j <= Len(text) - Len(search)) THEN <<>>
  ELSE LET reads == ReadsAt(text, search, j, 0) IN
       IF ~ InsideText(text, reads) THEN reads
       ELSE IF IsMatchAt(text, search, j, 0) THEN reads
       ELSE reads \o ScanReadsFrom(text, search, j + 1)

ScanReads(search, text) == ScanReadsFrom(ToLower(text), ToLower(search), 0)

\* Slip: an empty needle is taken to match nothing.
ScanMatchesNonEmpty(search, text) ==
  Len(search) > 0 /\ ScanFrom(ToLower(text), ToLower(search), 0)

\* Whether the scan of one record's text reaches `if isMatch`.
ScanMatches(search, text) == ScanFrom(ToLower(text), ToLower(search), 0)

\* Slip: a record that matches is appended, not put at its own position.
RECURSIVE SearchCommentsCompacting(_, _, _)
SearchCommentsCompacting(i, search, comments) ==
  IF i >= CommentCount THEN comments
  ELSE IF ScanMatches(search, Comments[i].Komentar)
    THEN SearchCommentsCompacting(i + 1, search,
           [comments EXCEPT ![Cardinality({q \in Slots : comments[q] # ZeroComment})] = Comments[i]])
    ELSE SearchCommentsCompacting(i + 1, search, comments)

\* for i := 0; i < CommentCount; i++ { if the scan matches { (*comments)[i] = Comments[i] } }
RECURSIVE SearchCommentsFrom(_, _, _)
SearchCommentsFrom(i, search, comments) ==
  IF i >= CommentCount THEN comments
  ELSE IF ScanMatches(search, Comments[i].Komentar)
    THEN SearchCommentsFrom(i + 1, search, [comments EXCEPT ![i] = Comments[i]])
    ELSE SearchCommentsFrom(i + 1, search, comments)

\* for i := 0; i < UserCount; i++ { if the scan matches { (*users)[i] = Users[i] } }
RECURSIVE SearchUsersFrom(_, _, _)
SearchUsersFrom(i, search, users) ==
  IF i >= UserCount THEN users
  ELSE IF ScanMatches(search, Users[i].Username)
    THEN SearchUsersFrom(i + 1, search, [users EXCEPT ![i] = Users[i]])
    ELSE SearchUsersFrom(i + 1, search, users)

\* The arrays the services declare before a query: var users [255]model.User.
ZeroUsers == [i \in Slots |-> ZeroUser]
ZeroComments == [i \in Slots |-> ZeroComment]

\* Slip: the loop runs over the whole array, not the live part.
RECURSIVE GetCommentByUserIdAllSlots(_, _, _)
GetCommentByUserIdAllSlots(i, userId, comments) ==
  IF i >= Capacity THEN comments
  ELSE IF Comments[i].UserId = userId
    THEN GetCommentByUserIdAllSlots(i + 1, userId, [comments EXCEPT ![i] = Comments[i]])
    ELSE GetCommentByUserIdAllSlots(i + 1, userId, comments)

\* for i := 0; i < CommentCount; i++ { if Comments[i].UserId == userId { (*comments)[i] = Comments[i] } }
RECURSIVE GetCommentByUserIdFrom(_, _, _)
GetCommentByUserIdFrom(i, userId, comments) ==
  IF i >= CommentCount THEN comments
  ELSE IF Comments[i].UserId = userId
    THEN GetCommentByUserIdFrom(i + 1, userId, [comments EXCEPT ![i] = Comments[i]])
    ELSE GetCommentByUserIdFrom(i + 1, userId, comments)

\* --------------------------------------------------------------- sorting
\* for i := 0; i < CommentCount; i++ { (*comments)[i] = Comments[i] }
CopyLive(comments) ==
  [i \in Slots |-> IF i < CommentCount THEN Comments[i] ELSE comments[i]]

\* for j := i + 1; j < CommentCount; j++ { mode 0: shorter moves index; mode 1: longer does }
RECURSIVE SelectIndex(_, _, _, _)
SelectIndex(comments, mode, j, index) ==
  IF j >= CommentCount THEN index
  ELSE IF mode = 0
    THEN IF Len(comments[j].Komentar) < Len(comments[index].Komentar)
           THEN SelectIndex(comments, mode, j + 1, j)
           ELSE SelectIndex(comments, mode, j + 1, index)
  ELSE IF mode = 1
    THEN IF Len(comments[j].Komentar) > Len(comments[index].Komentar)
           THEN SelectIndex(comments, mode, j + 1, j)
           ELSE SelectIndex(comments, mode, j + 1, index)
  ELSE SelectIndex(comments, mode, j + 1, index)

\* Slip: the selected record is inserted at i and the ones between move up.
SwapByShifting(comments, i, index) ==
  [q \in Slots |-> IF q = i THEN comments[index]
                   ELSE IF q > i /\ q <= index THEN comments[q - 1]
                   ELSE comments[q]]

\* (*comments)[i], (*comments)[index] = (*comments)[index], (*comments)[i]
Swap(comments, i, index) ==
  [comments EXCEPT ![i] = comments[index], ![index] = comments[i]]

\* Slip: the outer loop stops one position early.
RECURSIVE SelectionSortStopsEarly(_, _, _)
SelectionSortStopsEarly(comments, mode, i) ==
  IF ~ (i < CommentCount - 2) THEN comments
  ELSE LET index == SelectIndex(comments, mode, i + 1, i) IN
       SelectionSortStopsEarly(IF index # i THEN Swap(comments, i, index) ELSE comments,
                               mode, i + 1)

\* for i := 0; i < CommentCount-1; i++ { index := ...; if index != i { swap } }
RECURSIVE SelectionSortFrom(_, _, _)
SelectionSortFrom(comments, mode, i) ==
  IF ~ (i < CommentCount - 1) THEN comments
  ELSE LET index == SelectIndex(comments, mode, i + 1, i) IN
       SelectionSortFrom(IF index # i THEN Swap(comments, i, index) ELSE comments,
                         mode, i + 1)

\* Slip: Negatif is ranked with Positif.
getCategoryValueUnsigned(category) ==
  CASE category = "Positif" -> 1
    [] category = "Netral"  -> 0
    [] category = "Negatif" -> 1
    [] OTHER                -> 0

getCategoryValue(category) ==
  CASE category = "Positif" -> 1
    [] category = "Netral"  -> 0
    [] category = "Negatif" -> -1
    [] OTHER                -> 0

\* Slip: records of equal rank are shifted too (>= and <= in the loop tests).
RECURSIVE ShiftWhileNotBefore(_, _, _, _)
ShiftWhileNotBefore(comments, mode, j, currentValue) ==
  IF j >= 0 /\ (IF mode = 0
                THEN getCategoryValue(comments[j].Kategori) >= currentValue
                ELSE getCategoryValue(comments[j].Kategori) <= currentValue)
  THEN ShiftWhileNotBefore([comments EXCEPT ![j + 1] = comments[j]], mode, j - 1, currentValue)
  ELSE <<comments, j>>

\* for j >= 0 && value((*comments)[j]) > currentValue { (*comments)[j+1] = (*comments)[j]; j-- }
\* (< in place of > when mode is not 0); the result is the array and the final j.
RECURSIVE ShiftWhile(_, _, _, _)
ShiftWhile(comments, mode, j, currentValue) ==
  IF j >= 0 /\ (IF mode = 0
                THEN getCategoryValue(comments[j].Kategori) > currentValue
                ELSE getCategoryValue(comments[j].Kategori) < currentValue)
  THEN ShiftWhile([comments EXCEPT ![j + 1] = comments[j]], mode, j - 1, currentValue)
  ELSE <<comments, j>>

\* for i := 1; i < CommentCount; i++ { current := ...; shift; (*comments)[j+1] = current }
RECURSIVE InsertionSortFrom(_, _, _)
InsertionSortFrom(comments, mode, i) ==
  IF ~ (i < CommentCount) THEN comments
  ELSE LET current == comments[i]
           shifted == ShiftWhile(comments, mode, i - 1, getCategoryValue(current.Kategori))
       IN  InsertionSortFrom([shifted[1] EXCEPT ![shifted[2] + 1] = current], mode, i + 1)

\* ------------------------------------------- calls into the repositories
UserCreate(user) ==
  /\ Running
  /\ call' = <<"userRepository.Create">>
  /\ out' = NoOut
  /\ userRepository_Create(user)
  /\ UNCHANGED <<IdUserIncrement, commentStore, commentHistory, control>>

\* *users = global.Users
GetAllUsers ==
  /\ Running
  /\ call' = <<"userRepository.GetAllUsers">>
  /\ out' = Users
  /\ ret' = Nil
  /\ UNCHANGED <<store, history, control>>

\* A call of IsUserExists on its own; the answer is kept in out.
UserExists(username, exceptId) ==
  /\ Running
  /\ call' = <<"userRepository.IsUserExists", username, exceptId>>
  /\ out' = IsUserExists(username, exceptId)
  /\ ret' = Nil
  /\ UNCHANGED <<store, history, control>>

UserEdit(index, data) ==
  /\ Running
  /\ call' = <<"userRepository.EditUser", index, data>>
  /\ out' = NoOut
  /\ userRepository_EditUser(index, data)
  /\ UNCHANGED <<IdUserIncrement, commentStore, commentHistory, control>>

UserDelete(id) ==
  /\ Running
  /\ call' = <<"userRepository.DeleteUser", id>>
  /\ out' = NoOut
  /\ userRepository_DeleteUser(id)
  /\ UNCHANGED <<IdUserIncrement, commentStore, commentHistory, control>>

CommentCreate(comment, userId) ==
  /\ Running
  /\ CommentCount \in Slots => IdCommentIncrement < MaxCreates
  /\ call' = <<"commentRepository.Create">>
  /\ out' = NoOut
  /\ commentRepository_Create(comment, userId)
  /\ UNCHANGED <<userStore, userHistory, control>>

\* *comments = global.Comments
GetAllComments ==
  /\ Running
  /\ call' = <<"commentRepository.GetAllComments">>
  /\ out' = Comments
  /\ ret' = Nil
  /\ UNCHANGED <<store, history, control>>

CommentEdit(commentId, userId, data) ==
  /\ Running
  /\ call' = <<"commentRepository.EditUserComment", commentId, userId, data>>
  /\ out' = NoOut
  /\ commentRepository_EditUserComment(commentId, userId, data)
  /\ UNCHANGED <<userStore, userHistory, control>>

CommentDelete(commentId, userId) ==
  /\ Running
  /\ call' = <<"commentRepository.DeleteUserComment", commentId, userId>>
  /\ out' = NoOut
  /\ commentRepository_DeleteUserComment(commentId, userId)
  /\ UNCHANGED <<userStore, userHistory, control>>

SearchComments(search) ==
  /\ Running
  /\ call' = <<"commentRepository.SearchComments", search>>
  /\ out' = SearchCommentsFrom(0, search, ZeroComments)
  /\ ret' = Nil
  /\ UNCHANGED <<store, history, control>>

SearchUsers(search) ==
  /\ Running
  /\ call' = <<"userRepository.SearchUsers", search>>
  /\ out' = SearchUsersFrom(0, search, ZeroUsers)
  /\ ret' = Nil
  /\ UNCHANGED <<store, history, control>>

GetCommentByUserId(userId) ==
  /\ Running
  /\ call' = <<"commentRepository.GetCommentByUserId", userId>>
  /\ out' = GetCommentByUserIdFrom(0, userId, ZeroComments)
  /\ ret' = Nil
  /\ UNCHANGED <<store, history, control>>

\* Slip: the store array itself is sorted and handed out.
SortCommentsByCommentInPlace(mode) ==
  /\ Running
  /\ call' = <<"commentRepository.SortCommentsByComment", mode>>
  /\ Comments' = SelectionSortFrom(Comments, mode, 0)
  /\ out' = Comments'
  /\ ret' = Nil
  /\ UNCHANGED <<userStore, CommentCount, IdCommentIncrement, history, control>>

SortCommentsByComment(mode) ==
  /\ Running
  /\ call' = <<"commentRepository.SortCommentsByComment", mode>>
  /\ out' = SelectionSortFrom(CopyLive(ZeroComments), mode, 0)
  /\ ret' = Nil
  /\ UNCHANGED <<store, history, control>>

SortCommentsByKategori(mode) ==
  /\ Running
  /\ call' = <<"commentRepository.SortCommentsByKategori", mode>>
  /\ out' = InsertionSortFrom(CopyLive(ZeroComments), mode, 1)
  /\ ret' = Nil
  /\ UNCHANGED <<store, history, control>>

\* The scan of one text for one needle, as both searches run it on a record;
\* the needle and the text are the ones the run was started with.
ScanText ==
  /\ Running
  /\ call[1] = "input"
  /\ call' = <<"scan", call[2], call[3]>>
  /\ out' = ScanMatches(call[2], call[3])
  /\ ret' = Nil
  /\ UNCHANGED <<store, history, control>>

\* The same scan, giving the indices it reads.
ScanIndices ==
  /\ Running
  /\ call[1] = "input"
  /\ call' = <<"reads", call[2], call[3]>>
  /\ out' = ScanReads(call[2], call[3])
  /\ ret' = Nil
  /\ UNCHANGED <<store, history, control>>

\* ---------------------------------------------------------- service flows
\* What a flow returns after asking "try again?".
TryAgain(again) == IF again THEN Continue ELSE Back

\* Slip: the username is not looked up before the user is created.
CreateUserFlowUnchecked(username, password, confirmPassword, again) ==
  IF password # confirmPassword
    THEN /\ ret' = TryAgain(again)
         /\ UNCHANGED <<Users, UserCount, liveU>>
    ELSE userRepository_Create([ZeroUser EXCEPT !.Username = username, !.Password = password])

\* Register and the admin's CreateUser run the same steps: refuse a taken
\* username, refuse a password that differs from its confirmation, then
\* create the user from the username and the password alone.
CreateUserFlow(username, password, confirmPassword, again) ==
  IF IsUserExists(username, -1) \/ password # confirmPassword
    THEN /\ ret' = TryAgain(again)
         /\ UNCHANGED <<Users, UserCount, liveU>>
    ELSE userRepository_Create([ZeroUser EXCEPT !.Username = username, !.Password = password])

authService_Register(username, password, confirmPassword, again) ==
  /\ Running
  /\ call' = <<"authService.Register">>
  /\ out' = NoOut
  /\ CreateUserFlow(username, password, confirmPassword, again)
  /\ UNCHANGED <<IdUserIncrement, commentStore, commentHistory, control>>

adminService_CreateUser(username, password, confirmPassword, again) ==
  /\ Running
  /\ call' = <<"adminService.CreateUser">>
  /\ out' = NoOut
  /\ CreateUserFlow(username, password, confirmPassword, again)
  /\ UNCHANGED <<IdUserIncrement, commentStore, commentHistory, control>>

\* The prompt accepts only a number in 1..UserCount; with any other number
\* the prompt ends in an error and the flow asks "try again?".
EditUserFlow(number, username, password, confirmPassword, again) ==
  IF \/ number < 1 \/ number > UserCount
     \/ username # <<>> /\ IsUserExists(username, number - 1)
     \/ password # "" /\ password # confirmPassword
    THEN /\ ret' = TryAgain(again)
         /\ UNCHANGED <<Users, UserCount, liveU>>
    ELSE userRepository_EditUser(number - 1, [ZeroUser EXCEPT !.Username = username, !.Password = password])

adminService_EditUser(number, username, password, confirmPassword, again) ==
  /\ Running
  /\ call' = <<"adminService.EditUser", number>>
  /\ out' = NoOut
  /\ EditUserFlow(number, username, password, confirmPassword, again)
  /\ UNCHANGED <<IdUserIncrement, commentStore, commentHistory, control>>

DeleteUserFlow(number, again) ==
  IF number < 1 \/ number > UserCount
    THEN /\ ret' = TryAgain(again)
         /\ UNCHANGED <<Users, UserCount, liveU>>
    ELSE userRepository_DeleteUser(number - 1)

adminService_DeleteUser(number, again) ==
  /\ Running
  /\ call' = <<"adminService.DeleteUser", number>>
  /\ out' = NoOut
  /\ DeleteUserFlow(number, again)
  /\ UNCHANGED <<IdUserIncrement, commentStore, commentHistory, control>>

\* authService.Login on the caller's user model: <<the error, the model
\* afterwards>>.  formOk is false when a prompt of loginForm is interrupted.
authService_Login(user, formOk, username, password, again) ==
  IF ~ formOk THEN <<PromptError, user>>
  ELSE LET found == FindUserByUsername(username, user) IN
       IF found[1] # Nil THEN <<TryAgain(again), found[2]>>
       ELSE IF found[2].Password # password THEN <<TryAgain(again), found[2]>>
       ELSE <<Nil, found[2]>>

\* One round of the loop of AuthController.Login, entered from Bootstrap with
\* &user: it leaves the loop on nil and on "back" and repeats otherwise.
AuthController_Login(formOk, username, password, again) ==
  /\ Running
  /\ Top \in {<<"Bootstrap">>, <<"AuthController.Login">>}
  /\ LET result == authService_Login(Bootstrap_user, formOk, username, password, again) IN
       /\ call' = <<"authService.Login", username, password>>
       /\ ret' = result[1]
       /\ Bootstrap_user' = result[2]
       /\ pc' = IF result[1] \in {Nil, Back}
                  THEN <<<<"Bootstrap">>>>
                  ELSE <<<<"Bootstrap">>, <<"AuthController.Login">>>>
  /\ out' = NoOut
  /\ UNCHANGED <<store, history>>

\* adminService.AddComment from the form on: an interrupted form asks
\* "Try Again?", a completed one creates the comment with owner 0.
AddCommentFlow(formOk, komentar, kategori, again) ==
  IF formOk
    THEN commentRepository_Create([ZeroComment EXCEPT !.Komentar = komentar, !.Kategori = kategori], 0)
    ELSE /\ ret' = TryAgain(again)
         /\ UNCHANGED <<commentStore, liveC, created>>

adminService_AddComment(formOk, komentar, kategori, again) ==
  /\ Running
  /\ formOk /\ CommentCount \in Slots => IdCommentIncrement < MaxCreates
  /\ call' = <<"adminService.AddComment">>
  /\ out' = NoOut
  /\ AddCommentFlow(formOk, komentar, kategori, again)
  /\ UNCHANGED <<userStore, userHistory, control>>

\* The comment pages of a logged-in user.  user is the caller's model as
\* Login filled it: a copy of the stored record.
commentService_CreateCommentPage(user, formOk, komentar, kategori) ==
  /\ Running
  /\ formOk /\ CommentCount \in Slots => IdCommentIncrement < MaxCreates
  /\ call' = <<"commentService.CreateCommentPage", user>>
  /\ out' = NoOut
  /\ IF formOk
       THEN commentRepository_Create([ZeroComment EXCEPT !.Komentar = komentar, !.Kategori = kategori], user.Id)
       ELSE /\ ret' = PromptError
            /\ UNCHANGED <<commentStore, liveC, created>>
  /\ UNCHANGED <<userStore, userHistory, control>>

\* The id prompt accepts any number; a failed edit asks "Edit Again?".
commentService_EditUserComment(user, promptOk, id, komentar, kategori, again) ==
  /\ Running
  /\ call' = <<"commentService.EditUserComment", user, id>>
  /\ out' = NoOut
  /\ IF ~ promptOk
       THEN /\ ret' = PromptError
            /\ UNCHANGED <<commentStore, liveC, created>>
       ELSE IF FindOwned(0, id, user.Id) = -1
         THEN /\ ret' = TryAgain(again)
              /\ UNCHANGED <<commentStore, liveC, created>>
         ELSE commentRepository_EditUserComment(id, user.Id,
                [ZeroComment EXCEPT !.Komentar = komentar, !.Kategori = kategori])
  /\ UNCHANGED <<userStore, userHistory, control>>

commentService_DeleteUserComment(user, promptOk, id, again) ==
  /\ Running
  /\ call' = <<"commentService.DeleteUserComment", user, id>>
  /\ out' = NoOut
  /\ IF ~ promptOk
       THEN /\ ret' = PromptError
            /\ UNCHANGED <<commentStore, liveC, created>>
       ELSE IF FindOwned(0, id, user.Id) = -1
         THEN /\ ret' = TryAgain(again)
              /\ UNCHANGED <<commentStore, liveC, created>>
         ELSE commentRepository_DeleteUserComment(id, user.Id)
  /\ UNCHANGED <<userStore, userHistory, control>>

\* ------------------------------------------------------ admin controller
\* Bootstrap: the main menu answers "Admin" and AdminController.AdminMenu is
\* called; its locals are isAuthenticated (false) and result ("").
Bootstrap_Admin ==
  /\ Running
  /\ Top = <<"Bootstrap">>
  /\ call' = <<"MainController.MainMenu", "Admin">>
  /\ ret' = Nil
  /\ out' = NoOut
  /\ pc' = Push(<<"AdminController.AdminMenu", FALSE, "">>)
  /\ UNCHANGED <<store, history, Bootstrap_user>>

\* adminService.AdminPassword: the error it returns.  adminPass is the value
\* of ADMIN_PASS; with none set no password is asked.
adminService_AdminPassword(adminPass, promptOk, entered, again) ==
  IF adminPass = "" THEN Nil
  ELSE IF ~ promptOk THEN PromptError
  ELSE IF entered = adminPass THEN Nil
  ELSE TryAgain(again)

\* Slip: only "back" is tested, any other error goes on to the menu.
AfterAdminPasswordLax(err) ==
  IF err = Back THEN "return" ELSE "menu"

\* What AdminMenu does with the result of AdminPassword: return on "back",
\* continue (ask again) on any other error, go on to the menu on nil.
AfterAdminPassword(err) ==
  IF err # Nil
    THEN IF err = Back THEN "return" ELSE "continue"
    ELSE "menu"

\* AdminMenu, top of the loop with isAuthenticated false.
AdminMenu_AdminPassword(adminPass, promptOk, entered, again) ==
  /\ Running
  /\ Top[1] = "AdminController.AdminMenu"
  /\ ~ Top[2]
  /\ LET err == adminService_AdminPassword(adminPass, promptOk, entered, again) IN
       /\ call' = <<"adminService.AdminPassword">>
       /\ ret' = err
       /\ pc' = CASE AfterAdminPassword(err) = "return"   -> Pop
                  [] AfterAdminPassword(err) = "continue" -> pc
                  [] AfterAdminPassword(err) = "menu"     -> SetTop(<<Top[1], TRUE, Top[3]>>)
  /\ out' = NoOut
  /\ UNCHANGED <<store, history, Bootstrap_user>>

\* AdminMenu from `isAuthenticated = true` on: the menu is shown and the
\* answer acted on.  An interrupted prompt leaves result as it was.
AdminMenu_AdminMenu(promptOk, choice) ==
  /\ Running
  /\ Top[1] = "AdminController.AdminMenu"
  /\ Top[2]
  /\ LET result == IF promptOk THEN choice ELSE Top[3]
         frame == <<Top[1], TRUE, result>> IN
       /\ call' = IF result = "Lihat Grafik" THEN <<"adminService.Grafik">>
                  ELSE <<"adminService.AdminMenu", result>>
       /\ pc' = CASE result = "Exit"           -> Pop
                  [] result = "Lihat User"     -> Append(SetTop(frame), <<"AdminController.adminLihatUser", "">>)
                  [] result = "Lihat Komentar" -> Append(SetTop(frame), <<"AdminController.LihatComment", "">>)
                  [] OTHER                     -> SetTop(frame)
  /\ ret' = IF promptOk THEN Nil ELSE PromptError
  /\ out' = NoOut
  /\ UNCHANGED <<store, history, Bootstrap_user>>

\* adminLihatUser: the user menu is shown and the answer acted on.
adminLihatUser_LihatUser(promptOk, choice) ==
  /\ Running
  /\ Top[1] = "AdminController.adminLihatUser"
  /\ LET result == IF promptOk THEN choice ELSE Top[2]
         frame == <<Top[1], result>> IN
       /\ call' = <<"adminService.LihatUser", result>>
       /\ pc' = CASE result = "Exit"   -> Pop
                  [] result = "Search" -> Append(SetTop(frame), <<"AdminController.userSearch">>)
                  [] result = "Add"    -> Append(SetTop(frame), <<"AdminController.CreateUser">>)
                  [] result = "Edit"   -> Append(SetTop(frame), <<"AdminController.EditUser">>)
                  [] result = "Delete" -> Append(SetTop(frame), <<"AdminController.DeleteUser">>)
                  [] OTHER             -> SetTop(frame)
  /\ ret' = IF promptOk THEN Nil ELSE PromptError
  /\ out' = NoOut
  /\ UNCHANGED <<store, history, Bootstrap_user>>

\* The loops of CreateUser, EditUser, DeleteUser, AddComment, EditComment,
\* DeleteComment and SortingComment: "back" breaks, "continue" continues, any
\* other error breaks, nil reports the success and breaks.
LoopRepeats(err) ==
  IF err # Nil
    THEN IF err = Back THEN FALSE ELSE err = Continue
    ELSE FALSE

\* Slip: an error that is neither "back" nor "continue" continues the loop.
SearchLoopRepeatsOnError(err) ==
  IF err # Nil
    THEN IF err = Back THEN FALSE ELSE TRUE
    ELSE TRUE

\* The loops of userSearch and SearchComment: "back" breaks, "continue"
\* continues, any other error breaks; after nil the body ends without a
\* break and the loop goes round again.
SearchLoopRepeats(err) ==
  IF err # Nil
    THEN IF err = Back THEN FALSE ELSE err = Continue
    ELSE TRUE

\* adminService.SearchUsers: the error it returns (the repository's is
\* always nil); it ends with "Search Again?".
adminService_SearchUsers(promptOk, again) ==
  IF ~ promptOk THEN PromptError ELSE TryAgain(again)

\* One round of the loop of userSearch.
AdminController_userSearch(promptOk, search, again) ==
  /\ Running
  /\ Top = <<"AdminController.userSearch">>
  /\ call' = <<"adminService.SearchUsers", search>>
  /\ ret' = adminService_SearchUsers(promptOk, again)
  /\ out' = IF promptOk THEN SearchUsersFrom(0, search, ZeroUsers) ELSE NoOut
  /\ pc' = IF SearchLoopRepeats(ret') THEN pc ELSE Pop
  /\ UNCHANGED <<store, history, Bootstrap_user>>

\* One round of the loop of CreateUser; formOk is false when a prompt of
\* the form is interrupted.
AdminController_CreateUser(formOk, username, password, confirmPassword, again) ==
  /\ Running
  /\ Top = <<"AdminController.CreateUser">>
  /\ call' = <<"adminService.CreateUser">>
  /\ out' = NoOut
  /\ IF formOk
       THEN CreateUserFlow(username, password, confirmPassword, again)
       ELSE /\ ret' = PromptError
            /\ UNCHANGED <<Users, UserCount, liveU>>
  /\ pc' = IF LoopRepeats(ret') THEN pc ELSE Pop
  /\ UNCHANGED <<IdUserIncrement, commentStore, commentHistory, Bootstrap_user>>

\* One round of the loop of EditUser.
AdminController_EditUser(formOk, number, username, password, confirmPassword, again) ==
  /\ Running
  /\ Top = <<"AdminController.EditUser">>
  /\ call' = <<"adminService.EditUser", number>>
  /\ out' = NoOut
  /\ IF formOk \/ number < 1 \/ number > UserCount
       THEN EditUserFlow(number, username, password, confirmPassword, again)
       ELSE /\ ret' = PromptError
            /\ UNCHANGED <<Users, UserCount, liveU>>
  /\ pc' = IF LoopRepeats(ret') THEN pc ELSE Pop
  /\ UNCHANGED <<IdUserIncrement, commentStore, commentHistory, Bootstrap_user>>

\* One round of the loop of DeleteUser.
AdminController_DeleteUser(number, again) ==
  /\ Running
  /\ Top = <<"AdminController.DeleteUser">>
  /\ call' = <<"adminService.DeleteUser", number>>
  /\ out' = NoOut
  /\ DeleteUserFlow(number, again)
  /\ pc' = IF LoopRepeats(ret') THEN pc ELSE Pop
  /\ UNCHANGED <<IdUserIncrement, commentStore, commentHistory, Bootstrap_user>>

\* LihatComment: the comment menu is shown and the answer acted on; after an
\* interrupted prompt the loop continues at once.
LihatComment_LihatComment(promptOk, choice) ==
  /\ Running
  /\ Top[1] = "AdminController.LihatComment"
  /\ LET frame == <<Top[1], choice>> IN
       /\ call' = <<"adminService.LihatComment", IF promptOk THEN choice ELSE Top[2]>>
       /\ pc' = IF ~ promptOk THEN pc
                ELSE CASE choice = "Exit"    -> Pop
                       [] choice = "Search"  -> Append(SetTop(frame), <<"AdminController.SearchComment">>)
                       [] choice = "Add"     -> Append(SetTop(frame), <<"AdminController.AddComment">>)
                       [] choice = "Edit"    -> Append(SetTop(frame), <<"AdminController.EditComment">>)
                       [] choice = "Delete"  -> Append(SetTop(frame), <<"AdminController.DeleteComment">>)
                       [] choice = "Sorting" -> Append(SetTop(frame), <<"AdminController.SortingComment">>)
                       [] OTHER              -> SetTop(frame)
  /\ ret' = IF promptOk THEN Nil ELSE PromptError
  /\ out' = NoOut
  /\ UNCHANGED <<store, history, Bootstrap_user>>

\* One round of the loop of SearchComment: adminService.SearchAdminComment
\* ends with "Search Again?".
AdminController_SearchComment(promptOk, search, again) ==
  /\ Running
  /\ Top = <<"AdminController.SearchComment">>
  /\ call' = <<"adminService.SearchAdminComment", search>>
  /\ ret' = IF ~ promptOk THEN PromptError ELSE TryAgain(again)
  /\ out' = IF promptOk THEN SearchCommentsFrom(0, search, ZeroComments) ELSE NoOut
  /\ pc' = IF SearchLoopRepeats(ret') THEN pc ELSE Pop
  /\ UNCHANGED <<store, history, Bootstrap_user>>

\* One round of the loop of AddComment: the comment is created with owner 0;
\* an interrupted form asks "Try Again?".
AdminController_AddComment(formOk, komentar, kategori, again) ==
  /\ Running
  /\ Top = <<"AdminController.AddComment">>
  /\ formOk /\ CommentCount \in Slots => IdCommentIncrement < MaxCreates
  /\ call' = <<"adminService.AddComment">>
  /\ out' = NoOut
  /\ AddCommentFlow(formOk, komentar, kategori, again)
  /\ pc' = IF LoopRepeats(ret') THEN pc ELSE Pop
  /\ UNCHANGED <<userStore, userHistory, Bootstrap_user>>

\* adminService.EditComment once commentService.EditComment returned nil:
\* it asks "Try Again?" and returns "back" or "continue".
AfterEditComment(again) == TryAgain(again)

\* One round of the loop of EditComment.  The id prompt accepts only an id in
\* 1..IdCommentIncrement; promptOk is false when a prompt is interrupted.
AdminController_EditComment(promptOk, id, komentar, kategori, again) ==
  /\ Running
  /\ Top = <<"AdminController.EditComment">>
  /\ promptOk => id >= 1 /\ id <= IdCommentIncrement
  /\ call' = <<"adminService.EditComment", id,
                [ZeroComment EXCEPT !.Komentar = komentar, !.Kategori = kategori]>>
  /\ out' = NoOut
  /\ IF promptOk
       THEN LET r == commentRepository_EditComment(id, call'[3]) IN
            /\ Comments' = r.Comments
            /\ liveC' = r.liveC
            /\ ret' = IF r.err # Nil THEN r.err ELSE AfterEditComment(again)
       ELSE /\ ret' = PromptError
            /\ UNCHANGED <<Comments, liveC>>
  /\ pc' = IF LoopRepeats(ret') THEN pc ELSE Pop
  /\ UNCHANGED <<userStore, userHistory, CommentCount, IdCommentIncrement, created, Bootstrap_user>>

\* One round of the loop of DeleteComment: a failed delete asks "Try Again?".
AdminController_DeleteComment(promptOk, id, again) ==
  /\ Running
  /\ Top = <<"AdminController.DeleteComment">>
  /\ promptOk => id >= 1 /\ id <= IdCommentIncrement
  /\ call' = <<"adminService.DeleteComment", id>>
  /\ out' = NoOut
  /\ IF promptOk
       THEN LET r == commentRepository_DeleteComment(id) IN
            /\ Comments' = r.Comments
            /\ CommentCount' = r.CommentCount
            /\ liveC' = r.liveC
            /\ ret' = IF r.err # Nil THEN TryAgain(again) ELSE Nil
       ELSE /\ ret' = PromptError
            /\ UNCHANGED <<Comments, CommentCount, liveC>>
  /\ pc' = IF LoopRepeats(ret') THEN pc ELSE Pop
  /\ UNCHANGED <<userStore, userHistory, IdCommentIncrement, created, Bootstrap_user>>

\* One round of the loop of SortingComment: adminService.SortingKomentar
\* shows the sorted snapshot and returns nil.
AdminController_SortingComment(promptOk, sortBy, mode) ==
  /\ Running
  /\ Top = <<"AdminController.SortingComment">>
  /\ call' = <<"adminService.SortingKomentar", sortBy, mode>>
  /\ ret' = IF promptOk THEN Nil ELSE PromptError
  /\ out' = IF ~ promptOk THEN NoOut
            ELSE IF sortBy = "Komentar"
              THEN SelectionSortFrom(CopyLive(ZeroComments), mode, 0)
              ELSE InsertionSortFrom(CopyLive(ZeroComments), mode, 1)
  /\ pc' = IF LoopRepeats(ret') THEN pc ELSE Pop
  /\ UNCHANGED <<store, history, Bootstrap_user>>

\* ------------------------------------------------------- specifications
UserInputs == [Id : {0}, Username : UsernameSet, Password : PasswordSet]
UserPatches == [Id : {0}, Username : UsernameSet \cup {<<>>}, Password : PasswordSet \cup {""}]
\* The comment store is explored with one text at creation and one other
\* text in the patches.
CommentInputs == [Id : {0}, UserId : {0}, Komentar : {<<"x">>}, Kategori : {"Positif"}]
CommentPatches == [Id : {0}, UserId : {0}, Komentar : {<<>>, <<"y", "y">>}, Kategori : {""}]

\* The user store alone.
UserNext ==
  \/ \E user \in UserInputs : UserCreate(user)
  \/ GetAllUsers
  \/ \E index \in IndexSet, data \in UserPatches : UserEdit(index, data)
  \/ \E id \in IndexSet : UserDelete(id)

UserSpec == Init /\ [][UserNext]_vars

\* The comment store alone.
CommentNext ==
  \/ \E comment \in CommentInputs, userId \in OwnerSet : CommentCreate(comment, userId)
  \/ GetAllComments
  \/ \E commentId \in IdSet, userId \in OwnerSet, data \in CommentPatches :
       CommentEdit(commentId, userId, data)
  \/ \E commentId \in IdSet, userId \in OwnerSet : CommentDelete(commentId, userId)

CommentSpec == Init /\ [][CommentNext]_vars

\* The comment store under creations and edits, the patches carrying a
\* text, a category, both or neither.
EditPatches == [Id : {0}, UserId : {0}, Komentar : {<<>>, <<"y", "y">>}, Kategori : {"", "Negatif"}]

EditNext ==
  \/ \E comment \in CommentInputs, userId \in OwnerSet : CommentCreate(comment, userId)
  \/ \E commentId \in IdSet, userId \in OwnerSet, data \in EditPatches :
       CommentEdit(commentId, userId, data)

EditSpec == Init /\ [][EditNext]_vars

\* The scan on every needle and every text of up to MaxLen letters.
Letters == {"a", "A", "b", "B"}
TextsUpTo(n) == UNION {[1 .. m -> Letters] : m \in 0 .. n}

ScanInit ==
  /\ Users = ZeroUsers
  /\ UserCount = 0
  /\ Comments = ZeroComments
  /\ CommentCount = 0
  /\ IdUserIncrement = 0
  /\ IdCommentIncrement = 0
  /\ \E search \in TextsUpTo(MaxLen), text \in TextsUpTo(MaxLen) : call = <<"input", search, text>>
  /\ ret = Nil
  /\ out = NoOut
  /\ liveU = <<>>
  /\ liveC = <<>>
  /\ created = 0
  /\ Bootstrap_user = ZeroUser
  /\ pc = <<<<"Bootstrap">>>>

ScanNext == ScanText

ScanSpec == ScanInit /\ [][ScanNext]_vars

ScanReadsNext == ScanText \/ ScanIndices

ScanReadsSpec == ScanInit /\ [][ScanReadsNext]_vars

\* Both stores under creations, comment deletions and searches.  The texts
\* include the empty one, which the prompts accept.
SearchTexts == {<<>>, <<"a", "B">>}
SearchNames == {<<>>, <<"A", "b">>}
Needles == {<<>>, <<"b">>, <<"A", "b", "a">>}

SearchNext ==
  \/ \E text \in SearchTexts :
       CommentCreate([ZeroComment EXCEPT !.Komentar = text, !.Kategori = "Positif"], 0)
  \/ \E commentId \in IdSet : CommentDelete(commentId, 0)
  \/ \E name \in SearchNames : UserCreate([ZeroUser EXCEPT !.Username = name, !.Password = "p"])
  \/ \E search \in Needles : SearchComments(search)
  \/ \E search \in Needles : SearchUsers(search)

SearchSpec == Init /\ [][SearchNext]_vars

\* The comment store under creations, deletions and sorts by text length.
\* The services pass mode 0 (ascending) or 1 (descending).
SortTexts == {<<"x">>, <<"y", "y">>, <<"z", "z", "z">>}
Modes == {0, 1}

LengthSortNext ==
  \/ \E text \in SortTexts :
       CommentCreate([ZeroComment EXCEPT !.Komentar = text, !.Kategori = "Netral"], 0)
  \/ \E commentId \in IdSet : CommentDelete(commentId, 0)
  \/ \E mode \in Modes : SortCommentsByComment(mode)

LengthSortSpec == Init /\ [][LengthSortNext]_vars

\* The comment store under creations, deletions and sorts by category.  The
\* forms offer the three categories; Create stores any label it is given.
SortLabels == {"Positif", "Netral", "Negatif", "Lain"}

KategoriSortNext ==
  \/ \E label \in SortLabels :
       CommentCreate([ZeroComment EXCEPT !.Komentar = <<"x">>, !.Kategori = label], 0)
  \/ \E commentId \in IdSet : CommentDelete(commentId, 0)
  \/ \E mode \in Modes : SortCommentsByKategori(mode)

KategoriSortSpec == Init /\ [][KategoriSortNext]_vars

\* The comment store under creations, deletions and every query.
QueryInputs == {[ZeroComment EXCEPT !.Komentar = <<"x", "x">>, !.Kategori = "Positif"],
                [ZeroComment EXCEPT !.Komentar = <<"B">>, !.Kategori = "Negatif"]}
QueryNeedles == {<<>>, <<"b">>}

QueryNext ==
  \/ \E comment \in QueryInputs, userId \in OwnerSet : CommentCreate(comment, userId)
  \/ \E commentId \in IdSet, userId \in OwnerSet : CommentDelete(commentId, userId)
  \/ GetAllComments
  \/ \E userId \in OwnerSet : GetCommentByUserId(userId)
  \/ \E search \in QueryNeedles : SearchComments(search)
  \/ \E mode \in Modes : SortCommentsByComment(mode)
  \/ \E mode \in Modes : SortCommentsByKategori(mode)

QuerySpec == Init /\ [][QueryNext]_vars

\* The user store under creations, deletions and IsUserExists calls, with
\* usernames that differ in case only and the empty username.
ExistsNames == {<<>>, <<"a">>, <<"A">>}

ExistsNext ==
  \/ \E name \in ExistsNames : UserCreate([ZeroUser EXCEPT !.Username = name, !.Password = "p"])
  \/ \E id \in IndexSet : UserDelete(id)
  \/ \E name \in ExistsNames, exceptId \in IndexSet : UserExists(name, exceptId)

ExistsSpec == Init /\ [][ExistsNext]_vars

\* Registration and login from the main menu.
LoginNext ==
  \/ /\ Top = <<"Bootstrap">>
     /\ \E username \in UsernameSet, password \in PasswordSet, confirmPassword \in PasswordSet, again \in BOOLEAN :
          authService_Register(username, password, confirmPassword, again)
  \/ \E formOk \in BOOLEAN, username \in UsernameSet, password \in PasswordSet, again \in BOOLEAN :
       AuthController_Login(formOk, username, password, again)

LoginSpec == Init /\ [][LoginNext]_vars

\* Both stores, under any sequence of Create and Delete calls.
Next ==
  \/ \E user \in [Id : {0}, Username : UsernameSet, Password : {"p"}] : UserCreate(user)
  \/ \E id \in IndexSet : UserDelete(id)
  \/ \E comment \in [Id : {0}, UserId : {0}, Komentar : {<<"x">>}, Kategori : {"Positif"}] :
       CommentCreate(comment, 0)
  \/ \E commentId \in IdSet : CommentDelete(commentId, 0)

Spec == Init /\ [][Next]_vars

\* The user store as the registration and admin flows drive it.  The
\* prompts take any text, the empty one included.
FormUsernames == UsernameSet \cup {<<>>}
FormPasswords == PasswordSet \cup {""}
NumberSet == 0 .. (Capacity + 1)

ServiceNext ==
  \/ \E username \in FormUsernames, password \in FormPasswords, confirmPassword \in FormPasswords, again \in BOOLEAN :
       authService_Register(username, password, confirmPassword, again)
  \/ \E username \in FormUsernames, password \in FormPasswords, confirmPassword \in FormPasswords, again \in BOOLEAN :
       adminService_CreateUser(username, password, confirmPassword, again)
  \/ \E number \in NumberSet, username \in FormUsernames, password \in FormPasswords,
        confirmPassword \in FormPasswords, again \in BOOLEAN :
       adminService_EditUser(number, username, password, confirmPassword, again)
  \/ \E number \in NumberSet, again \in BOOLEAN : adminService_DeleteUser(number, again)

ServiceSpec == Init /\ [][ServiceNext]_vars

\* The user store as the admin's user menu drives it: Add, Edit, Delete.
AdminUserNext ==
  \/ \E username \in FormUsernames, confirmPassword \in PasswordSet, again \in BOOLEAN :
       adminService_CreateUser(username, "p", confirmPassword, again)
  \/ \E number \in NumberSet, username \in FormUsernames, password \in {"", "q"}, again \in BOOLEAN :
       adminService_EditUser(number, username, password, "q", again)
  \/ \E number \in NumberSet, again \in BOOLEAN : adminService_DeleteUser(number, again)

AdminUserSpec == Init /\ [][AdminUserNext]_vars

\* The admin side of the program, from the main menu down: the password
\* round, the menus, and one round of each operation's loop.
AdminPasswords == {"", "s"}
AdminMenuItems == {"Lihat Komentar", "Lihat User", "Lihat Grafik", "Exit"}
LihatUserItems == {"Search", "Add", "Edit", "Delete", "Exit"}
LihatCommentItems == {"Search", "Sorting", "Add", "Edit", "Delete", "Exit"}
AdminNames == {<<"a">>}
AdminTexts == {<<"x">>}

AdminNext ==
  \/ Bootstrap_Admin
  \/ \E adminPass \in AdminPasswords, promptOk \in BOOLEAN, entered \in AdminPasswords, again \in BOOLEAN :
       AdminMenu_AdminPassword(adminPass, promptOk, entered, again)
  \/ \E promptOk \in BOOLEAN, choice \in AdminMenuItems : AdminMenu_AdminMenu(promptOk, choice)
  \/ \E promptOk \in BOOLEAN, choice \in LihatUserItems : adminLihatUser_LihatUser(promptOk, choice)
  \/ \E promptOk \in BOOLEAN, again \in BOOLEAN : AdminController_userSearch(promptOk, <<"a">>, again)
  \/ \E formOk \in BOOLEAN, username \in AdminNames, again \in BOOLEAN :
       AdminController_CreateUser(formOk, username, "p", "p", again)
  \/ \E formOk \in BOOLEAN, number \in 1 .. Capacity, again \in BOOLEAN :
       AdminController_EditUser(formOk, number, <<"b">>, "", "", again)
  \/ \E number \in 1 .. Capacity, again \in BOOLEAN : AdminController_DeleteUser(number, again)
  \/ \E promptOk \in BOOLEAN, choice \in LihatCommentItems : LihatComment_LihatComment(promptOk, choice)
  \/ \E promptOk \in BOOLEAN, again \in BOOLEAN : AdminController_SearchComment(promptOk, <<"x">>, again)
  \/ \E formOk \in BOOLEAN, komentar \in AdminTexts, again \in BOOLEAN :
       AdminController_AddComment(formOk, komentar, "Positif", again)
  \/ \E promptOk \in BOOLEAN, id \in IdSet, again \in BOOLEAN :
       AdminController_EditComment(promptOk, id, <<"y">>, "", again)
  \/ \E promptOk \in BOOLEAN, id \in IdSet, again \in BOOLEAN :
       AdminController_DeleteComment(promptOk, id, again)
  \/ \E promptOk \in BOOLEAN, mode \in {0, 1} :
       AdminController_SortingComment(promptOk, "Komentar", mode)

AdminSpec == Init /\ [][AdminNext]_vars

\* Registered users and the admin writing comments, and logged-in users
\* editing and deleting.  The logged-in user is a stored record, as a
\* successful Login copies it; a user's comment carries the user's name as
\* its text and the admin's comment carries "x", and no edit changes a text.
\* IsolationCreates comments are written at most.
LoggedInUsers == {Users[i] : i \in 0 .. (UserCount - 1)}

IsolationCreates == MaxCreates - 2

IsolationNext ==
  \/ \E username \in UsernameSet : authService_Register(username, "p", "p", FALSE)
  \/ /\ IdCommentIncrement < IsolationCreates
     /\ adminService_AddComment(TRUE, <<"x">>, "Positif", FALSE)
  \/ /\ IdCommentIncrement < IsolationCreates
     /\ \E user \in LoggedInUsers :
          commentService_CreateCommentPage(user, TRUE, user.Username, "Positif")
  \/ \E user \in LoggedInUsers, promptOk \in BOOLEAN, id \in 0 .. IsolationCreates :
       commentService_EditUserComment(user, promptOk, id, <<>>, "Negatif", FALSE)
  \/ \E user \in LoggedInUsers, id \in 0 .. IsolationCreates :
       commentService_DeleteUserComment(user, TRUE, id, FALSE)

IsolationSpec == Init /\ [][IsolationNext]_vars

\* The comment store under creations, edits and deletions by two owners.
IdOrderNext ==
  \/ \E comment \in CommentInputs, userId \in OwnerSet : CommentCreate(comment, userId)
  \/ \E commentId \in IdSet, userId \in OwnerSet :
       CommentEdit(commentId, userId, [ZeroComment EXCEPT !.Kategori = "Negatif"])
  \/ \E commentId \in IdSet, userId \in OwnerSet : CommentDelete(commentId, userId)

IdOrderSpec == Init /\ [][IdOrderNext]_vars

\* =================================================================== claims
LiveUsers == 0 .. (UserCount - 1)
LiveComments == 0 .. (CommentCount - 1)
OpUserCreate == "userRepository.Create"
OpUserEdit == "userRepository.EditUser"
OpUserDelete == "userRepository.DeleteUser"
OpGetAllUsers == "userRepository.GetAllUsers"
OpCommentCreate == "commentRepository.Create"
OpCommentEdit == "commentRepository.EditUserComment"
OpCommentDelete == "commentRepository.DeleteUserComment"
OpGetAllComments == "commentRepository.GetAllComments"

\* C1: in both stores, after every Create and Delete call, the live count
\* lies in 0..capacity and the live records are exactly the records created
\* and not yet deleted, at positions [0, liveCount) in creation order, with
\* no empty slot among them and no comment stored twice.
C1_LiveRecordsContiguous ==
  /\ UserCount \in 0 .. Capacity
  /\ CommentCount \in 0 .. Capacity
  /\ Len(liveU) = UserCount
  /\ Len(liveC) = CommentCount
  /\ \A i \in LiveUsers : Users[i] = liveU[i + 1] /\ Users[i] # ZeroUser
  /\ \A i \in LiveComments : Comments[i] = liveC[i + 1] /\ Comments[i] # ZeroComment
  /\ \A i, j \in LiveComments : i # j => Comments[i].Id # Comments[j].Id

\* A comment was just deleted from between two others while the user store
\* holds two different users below its capacity.
C1_Witness ==
  /\ call = <<OpCommentDelete, 2, 0>>
  /\ ret = Nil
  /\ CommentCount = 2
  /\ Comments[0].Id = 1
  /\ Comments[1].Id = 3
  /\ UserCount = 2
  /\ Users[0].Username = <<"b">>
  /\ Users[1].Username = <<"a">>
  /\ Users[2] = ZeroUser

\* C2: the n-th successful Create stores id n and raises IdCommentIncrement
\* by exactly one; EditUserComment and DeleteUserComment never change
\* IdCommentIncrement; so the id given to a new comment was never given
\* before, deleted comments included.
C2_IdsIncreaseNeverReused ==
  [][ /\ IdCommentIncrement' = created'
      /\ created' \in {created, created + 1}
      /\ created' = created + 1 =>
           /\ call'[1] = OpCommentCreate
           /\ IdCommentIncrement' = IdCommentIncrement + 1
           /\ CommentCount' = CommentCount + 1
           /\ Comments'[CommentCount].Id = created'
           /\ \A i \in LiveComments : Comments[i].Id < Comments'[CommentCount].Id
      /\ call'[1] \in {OpCommentEdit, OpCommentDelete} =>
           IdCommentIncrement' = IdCommentIncrement ]_vars

\* A comment was created after two earlier ones had been deleted.
C2_Witness ==
  /\ call = <<OpCommentCreate>>
  /\ ret = Nil
  /\ CommentCount = 1
  /\ IdCommentIncrement = 3
  /\ Comments[0].Id = 3

\* C3: no two live users have the same Id.
C3_UserIdsUnique ==
  \A i, j \in LiveUsers : i # j => Users[i].Id # Users[j].Id

\* C4: EditUserComment and DeleteUserComment, given a comment id and a user
\* id that no live comment holds together, return the not-found-or-not-owned
\* error and leave Comments, CommentCount and IdCommentIncrement unchanged.
C4_OwnershipIsolation ==
  [][ ( /\ call'[1] \in {OpCommentEdit, OpCommentDelete}
        /\ ~ \E i \in LiveComments : Comments[i].Id = call'[2] /\ Comments[i].UserId = call'[3] )
      => ( /\ ret' = NotFoundOrNotOwned
           /\ UNCHANGED commentStore ) ]_vars

\* An edit was refused although a live comment has the id, under another owner.
C4_Witness ==
  /\ call[1] = OpCommentEdit
  /\ ret = NotFoundOrNotOwned
  /\ \E i \in LiveComments : Comments[i].Id = call[2] /\ Comments[i].UserId # call[3]

\* C5: a comment keeps its owner: a comment id that is live before and
\* after a call is stored with the same UserId before and after, and a
\* comment is created with the owner the caller gave.
C5_OwnerImmutable ==
  [][ /\ \A i \in LiveComments : \A j \in 0 .. (CommentCount' - 1) :
           Comments[i].Id = Comments'[j].Id => Comments[i].UserId = Comments'[j].UserId
      /\ \A j \in 0 .. (CommentCount' - 1) : Comments'[j].UserId = liveC'[j + 1].UserId ]_vars

\* A comment of owner 1 was edited, after an earlier comment had been
\* deleted and the edited one had moved to the front.
C5_Witness ==
  /\ call[1] = OpCommentEdit
  /\ call[2] = 2
  /\ call[3] = 1
  /\ ret = Nil
  /\ CommentCount = 2
  /\ Comments[0].Id = 2
  /\ Comments[0].UserId = 1
  /\ Comments[0].Komentar = <<"y", "y">>
  /\ Comments[1].UserId = 0

C7_DeleteUserCompacts ==
  [][ (call'[1] = OpUserDelete /\ call'[2] \in LiveUsers) =>
        ( /\ ret' = Nil
          /\ UserCount' = UserCount - 1
          /\ \A q \in 0 .. (call'[2] - 1) : Users'[q] = Users[q]
          /\ \A q \in (call'[2] + 1) .. (UserCount - 1) : Users'[q - 1] = Users[q]
          /\ Users'[UserCount - 1] = ZeroUser
          /\ \A q \in UserCount .. (Capacity - 1) : Users'[q] = Users[q] ) ]_vars

\* The user at position 1 of 3 was deleted.
C7_Witness ==
  /\ call = <<OpUserDelete, 1>>
  /\ ret = Nil
  /\ UserCount = 2
  /\ Users[0].Username = <<"a">>
  /\ Users[1].Username = <<"b">>
  /\ Users[2] = ZeroUser

\* C8: DeleteUserComment on a match removes the matched comment, moves the
\* later comments one position down, lowers CommentCount by one and leaves
\* the zero-value Comment in the old last live position.
C8_DeleteUserCommentCompactsAndClears ==
  [][ (call'[1] = OpCommentDelete /\ ret' = Nil) =>
        LET p == CHOOSE i \in LiveComments :
                   Comments[i].Id = call'[2] /\ Comments[i].UserId = call'[3]
        IN /\ CommentCount' = CommentCount - 1
           /\ \A q \in 0 .. (p - 1) : Comments'[q] = Comments[q]
           /\ \A q \in (p + 1) .. (CommentCount - 1) : Comments'[q - 1] = Comments[q]
           /\ Comments'[CommentCount - 1] = ZeroComment ]_vars

\* C9: the array GetAllUsers / GetAllComments hands back holds the live
\* records at positions [0, liveCount) and the zero-value record at every
\* position from liveCount on.
C9_SnapshotShowsLiveOnly ==
  /\ call[1] = OpGetAllUsers =>
       \A i \in Slots : out[i] = IF i < UserCount THEN Users[i] ELSE ZeroUser
  /\ call[1] = OpGetAllComments =>
       \A i \in Slots : out[i] = IF i < CommentCount THEN Comments[i] ELSE ZeroComment

\* C10: EditUser and DeleteUser with an index below 0 or not below UserCount
\* return the out-of-range error and leave Users and UserCount unchanged.
C10_IndexOutOfRangeRefused ==
  [][ ( /\ call'[1] \in {OpUserEdit, OpUserDelete}
        /\ (call'[2] < 0 \/ call'[2] >= UserCount) )
      => ( /\ ret' = OutOfRange
           /\ UNCHANGED <<Users, UserCount>> ) ]_vars

\* EditUser was refused at the first position past the live users.
C10_Witness ==
  /\ call[1] = OpUserEdit
  /\ ret = OutOfRange
  /\ UserCount > 0
  /\ call[2] = UserCount

\* C11: EditUser with a valid index writes the Username of that record iff
\* the patch's Username is non-empty and its Password iff the patch's
\* Password is non-empty; the record's other fields, every other record and
\* UserCount stay as they were.
C11_EditUserPartial ==
  [][ (call'[1] = OpUserEdit /\ call'[2] \in LiveUsers) =>
        ( /\ ret' = Nil
          /\ Users'[call'[2]].Username =
               IF call'[3].Username # <<>> THEN call'[3].Username ELSE Users[call'[2]].Username
          /\ Users'[call'[2]].Password =
               IF call'[3].Password # "" THEN call'[3].Password ELSE Users[call'[2]].Password
          /\ Users'[call'[2]].Id = Users[call'[2]].Id
          /\ \A q \in Slots \ {call'[2]} : Users'[q] = Users[q]
          /\ UserCount' = UserCount ) ]_vars

\* The second of two users was edited with an empty username and the
\* password "q": it kept its username and holds the new password.
C11_Witness ==
  /\ call[1] = OpUserEdit
  /\ call[2] = 1
  /\ call[3].Username = <<>>
  /\ call[3].Password = "q"
  /\ ret = Nil
  /\ UserCount = 2
  /\ Users[0] = [Id |-> 0, Username |-> <<"a">>, Password |-> "p"]
  /\ Users[1] = [Id |-> 0, Username |-> <<"b">>, Password |-> "q"]

\* C12: EditUserComment on a match writes the Komentar of the matched
\* comment iff the patch's text is non-empty and its Kategori iff the
\* patch's category is non-empty; its Id and UserId, every other comment,
\* CommentCount and IdCommentIncrement stay as they were.
C12_EditUserCommentPartial ==
  [][ (call'[1] = OpCommentEdit /\ ret' = Nil) =>
        LET p == CHOOSE i \in LiveComments :
                   Comments[i].Id = call'[2] /\ Comments[i].UserId = call'[3]
        IN /\ Comments'[p].Komentar =
                IF call'[4].Komentar # <<>> THEN call'[4].Komentar ELSE Comments[p].Komentar
           /\ Comments'[p].Kategori =
                IF call'[4].Kategori # "" THEN call'[4].Kategori ELSE Comments[p].Kategori
           /\ Comments'[p].Id = Comments[p].Id
           /\ Comments'[p].UserId = Comments[p].UserId
           /\ \A q \in Slots \ {p} : Comments'[q] = Comments[q]
           /\ CommentCount' = CommentCount
           /\ IdCommentIncrement' = IdCommentIncrement ]_vars

\* The second comment, of owner 1, was edited with an empty text and the
\* category "Negatif": it kept its text and holds the new category.
C12_Witness ==
  /\ call[1] = OpCommentEdit
  /\ call[2] = 2
  /\ call[3] = 1
  /\ call[4].Komentar = <<>>
  /\ call[4].Kategori = "Negatif"
  /\ ret = Nil
  /\ CommentCount = 2
  /\ Comments[0] = [Id |-> 1, UserId |-> 0, Komentar |-> <<"x">>, Kategori |-> "Positif"]
  /\ Comments[1] = [Id |-> 2, UserId |-> 1, Komentar |-> <<"x">>, Kategori |-> "Negatif"]

\* ------------------------------------------------------ search (C13 - C15)
OpSearchComments == "commentRepository.SearchComments"
OpSearchUsers == "userRepository.SearchUsers"
OpScan == "scan"

\* Reference: case-insensitive substring containment, by comparing every
\* window of the folded text with the folded needle.
Folded(s) == [i \in 1 .. Len(s) |->
                CASE s[i] = "A" -> "a" [] s[i] = "B" -> "b" [] OTHER -> s[i]]

ContainsFold(search, text) ==
  \E i \in 0 .. Len(text) - Len(search) :
    SubSeq(Folded(text), i + 1, i + Len(search)) = Folded(search)

\* C13: after SearchComments / SearchUsers into a zero-initialised array,
\* position i holds store record i when i is live and its text (username)
\* contains the needle, and the zero placeholder everywhere else; matches
\* stay at their store position.
C13_SearchPositionalSparse ==
  /\ call[1] = OpSearchComments =>
       \A i \in Slots :
         out[i] = IF i < CommentCount /\ ContainsFold(call[2], Comments[i].Komentar)
                  THEN Comments[i] ELSE ZeroComment
  /\ call[1] = OpSearchUsers =>
       \A i \in Slots :
         out[i] = IF i < UserCount /\ ContainsFold(call[2], Users[i].Username)
                  THEN Users[i] ELSE ZeroUser

\* A search over three live comments that matches the first and the third.
C13_Witness ==
  /\ call[1] = OpSearchComments
  /\ CommentCount = 3
  /\ out[0] = Comments[0] /\ out[0] # ZeroComment
  /\ out[1] = ZeroComment
  /\ out[2] = Comments[2] /\ out[2] # ZeroComment

\* C14: the scan finds a match exactly when the folded needle is a substring
\* of the folded text, for every needle and text of up to MaxLen letters.
C14_ScanIsContainment ==
  call[1] = OpScan => out = ContainsFold(call[2], call[3])

\* A mixed-case needle found at the last start position of the text.
C14_Witness ==
  /\ call = <<OpScan, <<"B", "a">>, <<"a", "b", "A">>>>
  /\ out = TRUE

\* C15: an empty needle matches every live record, one whose text or
\* username is empty included.
C15_EmptyNeedleMatchesAll ==
  /\ call[1] = OpSearchComments /\ call[2] = <<>> =>
       \A i \in Slots : i < CommentCount => out[i] = Comments[i]
  /\ call[1] = OpSearchUsers /\ call[2] = <<>> =>
       \A i \in Slots : i < UserCount => out[i] = Users[i]

\* An empty-needle search that returned a live comment with an empty text.
C15_Witness ==
  /\ call = <<OpSearchComments, <<>>>>
  /\ \E i \in Slots :
       /\ i < CommentCount
       /\ Comments[i].Komentar = <<>>
       /\ out[i] = Comments[i]
       /\ out[i] # ZeroComment

\* ------------------------------------------------------- sorts (C16 - C19)
OpSortByComment == "commentRepository.SortCommentsByComment"
OpSortByKategori == "commentRepository.SortCommentsByKategori"

Live == {i \in Slots : i < CommentCount}

\* The live part of the snapshot is a rearrangement of the live comments.
OutIsPermutation ==
  \E p \in Permutations(Live) : \A i \in Live : out[i] = Comments[p[i]]

Rank(comment) ==
  CASE comment.Kategori = "Positif" -> 1
    [] comment.Kategori = "Negatif" -> -1
    [] OTHER -> 0

\* C16: SortCommentsByComment(mode) gives a permutation of the live comments
\* ordered by text length, non-decreasing for mode 0, non-increasing for mode 1.
C16_SortByLength ==
  call[1] = OpSortByComment =>
    /\ OutIsPermutation
    /\ \A i, j \in Live :
         i < j => IF call[2] = 0
                  THEN Len(out[i].Komentar) <= Len(out[j].Komentar)
                  ELSE Len(out[i].Komentar) >= Len(out[j].Komentar)

\* A descending sort of three comments stored shortest first.
C16_Witness ==
  /\ call = <<OpSortByComment, 1>>
  /\ CommentCount = 3
  /\ Len(Comments[0].Komentar) < Len(Comments[1].Komentar)
  /\ Len(Comments[1].Komentar) < Len(Comments[2].Komentar)
  /\ out[0] = Comments[2] /\ out[1] = Comments[1] /\ out[2] = Comments[0]

\* C17: SortCommentsByKategori(mode) gives a permutation of the live comments
\* ordered by rank (Positif 1, Netral and any other label 0, Negatif -1),
\* rising for mode 0 and falling for mode 1.
C17_SortByKategori ==
  call[1] = OpSortByKategori =>
    /\ OutIsPermutation
    /\ \A i, j \in Live :
         i < j => IF call[2] = 0
                  THEN Rank(out[i]) <= Rank(out[j])
                  ELSE Rank(out[i]) >= Rank(out[j])

\* An ascending sort of Positif, another label, Negatif: Negatif comes first,
\* the other label in the middle.
C17_Witness ==
  /\ call = <<OpSortByKategori, 0>>
  /\ CommentCount = 3
  /\ Comments[0].Kategori = "Positif"
  /\ Comments[1].Kategori = "Lain"
  /\ Comments[2].Kategori = "Negatif"
  /\ out[0] = Comments[2] /\ out[1] = Comments[1] /\ out[2] = Comments[0]

\* C18: SortCommentsByKategori keeps comments of equal rank in their store
\* order, in both directions.
C18_KategoriSortStable ==
  call[1] = OpSortByKategori =>
    \A i, j \in Live :
      i < j /\ Rank(Comments[i]) = Rank(Comments[j]) =>
        \E p, q \in Live : p < q /\ out[p] = Comments[i] /\ out[q] = Comments[j]

\* A descending sort that moves two Positif comments in front of a Negatif
\* one and keeps their order.
C18_Witness ==
  /\ call = <<OpSortByKategori, 1>>
  /\ CommentCount = 3
  /\ Comments[0].Kategori = "Negatif"
  /\ Comments[1].Kategori = "Positif"
  /\ Comments[2].Kategori = "Positif"
  /\ out[0] = Comments[1] /\ out[1] = Comments[2] /\ out[2] = Comments[0]

\* C19: SortCommentsByComment is not stable: sorting, ascending, two comments
\* of equal length followed by a shorter one reverses the two.
C19_LengthSortReversesTie ==
  /\ call = <<OpSortByComment, 0>>
  /\ CommentCount = 3
  /\ Len(Comments[0].Komentar) = Len(Comments[1].Komentar)
  /\ Len(Comments[2].Komentar) < Len(Comments[0].Komentar)
  => out[0] = Comments[2] /\ out[1] = Comments[1] /\ out[2] = Comments[0]

\* Such a store, sorted: the two equal-length comments are distinct records
\* and the one stored first comes out last.
C19_Witness ==
  /\ call = <<OpSortByComment, 0>>
  /\ CommentCount = 3
  /\ Len(Comments[0].Komentar) = Len(Comments[1].Komentar)
  /\ Len(Comments[2].Komentar) < Len(Comments[0].Komentar)
  /\ Comments[0] # Comments[1]
  /\ out[1] = Comments[1] /\ out[2] = Comments[0]

\* --------------------------------------------------------- queries (C20)
OpGetCommentByUserId == "commentRepository.GetCommentByUserId"

QueryOps == {OpSortByComment, OpSortByKategori, OpSearchComments,
             OpGetCommentByUserId, OpGetAllComments}

\* C20: SortCommentsByComment, SortCommentsByKategori, SearchComments,
\* GetCommentByUserId and GetAllComments leave Comments, CommentCount and
\* IdCommentIncrement as they were.
C20_QueriesReadOnly ==
  [][call'[1] \in QueryOps => UNCHANGED commentStore]_vars

\* A descending sort by length of a store holding a shorter comment before a
\* longer one: the snapshot is reordered, the store is not.
C20_Witness ==
  /\ call = <<OpSortByComment, 1>>
  /\ CommentCount >= 2
  /\ Len(Comments[0].Komentar) < Len(Comments[1].Komentar)
  /\ out[0] # Comments[0]

\* ------------------------------------------------- IsUserExists (C21)
OpIsUserExists == "userRepository.IsUserExists"

\* C21: IsUserExists(username, exceptId) is true exactly when a live position
\* other than exceptId holds a user with that very username, letter case
\* included.
C21_IsUserExistsExact ==
  call[1] = OpIsUserExists =>
    out = (\E i \in Slots : /\ i < UserCount
                            /\ i # call[3]
                            /\ Users[i].Username = call[2])

\* Two live users whose names differ in case only: asked for the name of the
\* one at position 1 with that position excepted, the answer is no.
C21_Witness ==
  /\ call = <<OpIsUserExists, <<"a">>, 1>>
  /\ UserCount = 2
  /\ Users[0].Username = <<"A">>
  /\ Users[1].Username = <<"a">>
  /\ out = FALSE

\* ------------------------------------------- GetCommentByUserId (C22)
\* C22: after GetCommentByUserId(userId) into a zero-initialised array,
\* position i holds store record i when i is live and owned by userId, and
\* the zero placeholder everywhere else.
C22_GetByUserPositionalSparse ==
  call[1] = OpGetCommentByUserId =>
    \A i \in Slots :
      out[i] = IF i < CommentCount /\ Comments[i].UserId = call[2]
               THEN Comments[i] ELSE ZeroComment

\* Two live comments, the second owned by user 1, and a stale record of user 1
\* behind them: only position 1 is filled.
C22_Witness ==
  /\ call = <<OpGetCommentByUserId, 1>>
  /\ CommentCount = 2
  /\ Comments[0].UserId = 0
  /\ Comments[1].UserId = 1
  /\ Comments[2].UserId = 1 /\ Comments[2] # ZeroComment
  /\ out[0] = ZeroComment /\ out[1] = Comments[1] /\ out[2] = ZeroComment

\* ----------------------------------------------------------- login (C23)
OpLogin == "authService.Login"

\* C23: a Login that returns an error leaves the caller's user model as it
\* was; a Login that returns nil leaves in it the stored record of a live
\* user with the entered username and the entered password.
C23_LoginPopulatesOnlyOnSuccess ==
  [][call'[1] = OpLogin =>
       IF ret' # Nil
         THEN Bootstrap_user' = Bootstrap_user
         ELSE \E i \in Slots : /\ i < UserCount
                               /\ Users[i].Username = call'[2]
                               /\ Users[i].Password = call'[3]
                               /\ Bootstrap_user' = Users[i]]_vars

\* ------------------------------------------------ unique usernames (C24)
\* C24: under the admin's CreateUser, EditUser and DeleteUser flows, started
\* on an empty store, no two live users have the same Username.
C24_UsernamesUnique ==
  \A i, j \in Slots :
    i < j /\ j < UserCount => Users[i].Username # Users[j].Username

\* An edit that went through with three users in the store and gave the user
\* at position 0 a name that had been another user's before.
C24_Witness ==
  /\ call = <<"adminService.EditUser", 1>>
  /\ ret = Nil
  /\ UserCount = 3
  /\ Users[0].Username = <<"b">>
  /\ Users[1].Username = <<"a">>

OpAdminPassword == "adminService.AdminPassword"
AdminOperations ==
  {"adminService.AdminMenu", "adminService.Grafik", "adminService.LihatUser",
   "adminService.SearchUsers", "adminService.CreateUser", "adminService.EditUser",
   "adminService.DeleteUser", "adminService.LihatComment",
   "adminService.SearchAdminComment", "adminService.AddComment",
   "adminService.EditComment", "adminService.DeleteComment",
   "adminService.SortingKomentar"}
InAdminMenu == Len(pc) >= 2 /\ pc[2][1] = "AdminController.AdminMenu"
isAuthenticated == InAdminMenu /\ pc[2][2]

\* C25: within one invocation of AdminController.AdminMenu, the invocation
\* becomes authenticated only by a call of AdminPassword that returns nil; the
\* admin menu and every admin operation run only in an authenticated
\* invocation; AdminPassword returning "back" returns from AdminMenu to the
\* main menu with the stores untouched; and AdminPassword is asked only while
\* the invocation is not yet authenticated.
C25_AdminGate ==
  [][ /\ (~ isAuthenticated /\ isAuthenticated')
           => (InAdminMenu /\ call'[1] = OpAdminPassword /\ ret' = Nil)
      /\ call'[1] \in AdminOperations => isAuthenticated
      /\ (call'[1] = OpAdminPassword /\ ret' = Back)
           => (pc' = <<<<"Bootstrap">>>> /\ UNCHANGED <<store, history>>)
      /\ call'[1] = OpAdminPassword => (InAdminMenu /\ ~ isAuthenticated) ]_vars

\* An admin sub-operation has succeeded inside an authenticated invocation.
C25_Witness ==
  isAuthenticated /\ call[1] = "adminService.DeleteUser" /\ ret = Nil

OpAdminSearchUsers == "adminService.SearchUsers"

OpAdminEditComment == "adminService.EditComment"

\* The step is a round of the admin's comment edit in which the repository
\* update was applied without error.
EditApplied ==
  /\ call'[1] = OpAdminEditComment
  /\ ret' # PromptError
  /\ FindComment(0, call'[2]) # -1
  /\ Comments' = commentRepository_EditComment(call'[2], call'[3]).Comments

\* C27: in the admin comment-edit flow a successful edit makes
\* adminService.EditComment return nil, so that AdminController.EditComment
\* takes its success branch and returns to the comment menu.
C27_EditSuccessReturnsNil ==
  [][ EditApplied => (ret' = Nil /\ pc' = Pop) ]_vars

\* ------------------------------------------- cross-user isolation (C28)
OpUserEditComment == "commentService.EditUserComment"
OpUserDeleteComment == "commentService.DeleteUserComment"

\* C28: EditUserComment and DeleteUserComment invoked with V as the
\* logged-in user leave every live comment that V did not create (a comment
\* created by another registered user through CreateCommentPage, or added
\* by the admin) in the store and unchanged.
C28_CrossUserIsolation ==
  [][ call'[1] \in {OpUserEditComment, OpUserDeleteComment} =>
        \A i \in LiveComments :
          Comments[i].Komentar # call'[2].Username =>
            \E j \in 0 .. (CommentCount' - 1) : Comments'[j] = Comments[i] ]_vars

\* ------------------------------------------------ comment id order (C29)
\* C29: in every reachable state of the comment store the live comments are
\* in strictly increasing Id order by position and every live Id lies in
\* 1..IdCommentIncrement; hence the live Ids are pairwise distinct,
\* CommentCount <= IdCommentIncrement, and the (id, owner) match of
\* EditUserComment / DeleteUserComment selects at most one live comment.
C29_LiveIdsIncreasing ==
  /\ \A i \in LiveComments : \A j \in LiveComments :
       i < j => Comments[i].Id < Comments[j].Id
  /\ \A i \in LiveComments : Comments[i].Id >= 1 /\ Comments[i].Id <= IdCommentIncrement
  /\ \A i \in LiveComments : \A j \in LiveComments :
       i # j => Comments[i].Id # Comments[j].Id
  /\ CommentCount <= IdCommentIncrement
  /\ \A commentId \in IdSet : \A userId \in OwnerSet :
       Cardinality({i \in LiveComments :
                      Comments[i].Id = commentId /\ Comments[i].UserId = userId}) <= 1

\* After deletions and a later creation the live Ids have gaps: positions
\* 0 and 1 hold Ids 2 and 4, the second just created.
C29_Witness ==
  /\ call[1] = OpCommentCreate
  /\ ret = Nil
  /\ CommentCount = 2
  /\ Comments[0].Id = 2
  /\ Comments[1].Id = 4
  /\ Comments[0].Kategori = "Negatif"

\* ------------------------------------------------ scan index safety (C30)
\* C30: for every needle and text, the empty ones and a needle longer than
\* the text included, every index j+k the substring scan reads satisfies
\* 0 <= j+k < len(text); the scan ends after at most
\* (len(text)+1) * len(needle) reads; and a needle strictly longer than the
\* text reads nothing and never matches.
C30_ScanStaysInsideText ==
  /\ call[1] = "reads" =>
       /\ \A n \in 1 .. Len(out) : out[n] >= 0 /\ out[n] < Len(call[3])
       /\ Len(out) <= (Len(call[3]) + 1) * Len(call[2])
       /\ Len(call[2]) > Len(call[3]) => out = <<>>
  /\ call[1] = "scan" /\ Len(call[2]) > Len(call[3]) => out = FALSE

\* A scan of a needle of two letters that read the last letter of a longer
\* text.
C30_Witness ==
  /\ call[1] = "reads"
  /\ Len(call[2]) = 2
  /\ Len(call[3]) = 3
  /\ Len(out) > 0
  /\ out[Len(out)] = Len(call[3]) - 1

====
